---- MODULE Spec2Model ----
(***************************************************************************)
(* A model of fb2rename (src/__main__.py): the sanitizer clean_string, the *)
(* metadata extraction get_node / get_authors, the record builder          *)
(* file_info, the rule lookup get_pattern, the directory walker get_files  *)
(* and the loop of main.                                                   *)
(*                                                                         *)
(* A string is a sequence of one-character strings.  A file name is a      *)
(* string whose extension, when it has one, is its last element (".fb2").  *)
(* A path is a sequence of names relative to the scan root.                *)
(***************************************************************************)
EXTENDS Integers, Sequences, FiniteSets, TLC

VARIABLES
    arg,        \* the input of the function under test (pure-function specs)
    rets,       \* the results of the calls made so far (pure-function specs)
    n,          \* args.n, the dry-run flag
    config,     \* the loaded configuration's 'patterns' list
    fs,         \* the filesystem under the root: path -> entry
    fs0,        \* the filesystem when the run started (history)
    stack,      \* the suspended frames of the get_files generator
    cur,        \* the tuple main's loop body is working on, or NoFile
    status,     \* where the run is: "init", "running", "done", or an exception
    out,        \* the dry-run diff lines printed so far
    diag,       \* the broken rows printed so far
    renames,    \* the os.rename calls issued so far (history)
    visited     \* the files whose loop body has completed (history)

pureVars == <<arg, rets>>
mainVars == <<n, config, fs, fs0, stack, cur, status, out, diag, renames, visited>>
vars == <<arg, rets, n, config, fs, fs0, stack, cur, status, out, diag, renames, visited>>

(***************************************************************************)
(* Bounds of the model.                                                    *)
(***************************************************************************)
MaxLen == 4         \* longest input string given to clean_string
MaxRules == 2       \* longest rule list given to get_pattern
MaxNodes == 3       \* most metadata nodes in a document given to file_info
MaxFiles == 2       \* most entries of the root directory of a shallow tree

(***************************************************************************)
(* Sequence helpers.                                                       *)
(***************************************************************************)
RECURSIVE SeqsUpTo(_, _)
SeqsUpTo(S, k) ==
    IF k = 0 THEN {<<>>}
    ELSE LET shorter == SeqsUpTo(S, k - 1)
         IN  shorter \cup {Append(s, x) : s \in {t \in shorter : Len(t) = k - 1}, x \in S}

IsSuffix(suf, s) ==
    /\ Len(suf) <= Len(s)
    /\ SubSeq(s, Len(s) - Len(suf) + 1, Len(s)) = suf

Min(a, b) == IF a <= b THEN a ELSE b

(***************************************************************************)
(* clean_string (lines 40-57).                                             *)
(***************************************************************************)
Letters == {"a", "b", "c", "d", "e"}
Digits == {"0", "1"}
\* str.strip() removes these from both ends
Whitespace == {" ", "\t", "\n"}
\* the characters SANITIZE_REGEXS[1] keeps: [а-яА-Яa-zA-Z0-9 \.,-]
Allowed == Letters \cup Digits \cup {" ", ".", ",", "-"}

RECURSIVE LStrip(_)
LStrip(s) == IF s # <<>> /\ Head(s) \in Whitespace THEN LStrip(Tail(s)) ELSE s

RECURSIVE RStrip(_)
RStrip(s) ==
    IF s # <<>> /\ s[Len(s)] \in Whitespace THEN RStrip(SubSeq(s, 1, Len(s) - 1)) ELSE s

strip(s) == RStrip(LStrip(s))

\* the length of the longest run of digits s starts with
RECURSIVE DigitRun(_)
DigitRun(s) == IF s # <<>> /\ Head(s) \in Digits THEN 1 + DigitRun(Tail(s)) ELSE 0

\* re.sub('^\d+\)', '', s): one or more digits and a ')' at the start are removed
SubNumberPrefix(s) ==
    LET k == DigitRun(s)
    IN  IF k >= 1 /\ Len(s) > k /\ s[k + 1] = ")" THEN SubSeq(s, k + 2, Len(s)) ELSE s

\* re.sub('[^...]', '', s): every character outside the allow-list is removed
SubNotAllowed(s) == SelectSeq(s, LAMBDA c : c \in Allowed)

\* the pipeline without its last strip
CleanNoFinalStrip(s) == SubNotAllowed(SubNumberPrefix(strip(s)))

Clean(s) == strip(SubNotAllowed(SubNumberPrefix(strip(s))))

\* s is None, a str, or (with isList) a list of str; the result is the pair
clean_string(s, isList) ==
    IF s = <<>> THEN <<<<>>, FALSE>>
    ELSE LET s1 == IF isList THEN s[1] ELSE s
             new_s == Clean(s1)
         IN  <<new_s, s1 # new_s>>

(***************************************************************************)
(* fnmatch.fnmatch and get_pattern (lines 112-116).  A glob is a sequence  *)
(* of characters; "*" matches any run of characters ("/" included), "?"    *)
(* any one character, any other character itself.                          *)
(***************************************************************************)
RECURSIVE fnmatch(_, _)
fnmatch(name, pat) ==
    IF pat = <<>> THEN name = <<>>
    ELSE IF Head(pat) = "*"
         THEN \E k \in 0..Len(name) : fnmatch(SubSeq(name, k + 1, Len(name)), Tail(pat))
         ELSE /\ name # <<>>
              /\ Head(pat) = "?" \/ Head(pat) = Head(name)
              /\ fnmatch(Tail(name), Tail(pat))

DefaultTemplate == <<"{author}", " ", "-", " ", "{title}">>

\* a loop that keeps the last matching rule instead of returning at the first
LastMatch(relpath, patterns) ==
    LET hits == {i \in 1..Len(patterns) : fnmatch(relpath, patterns[i][1])}
    IN  IF hits = {} THEN DefaultTemplate
        ELSE patterns[CHOOSE i \in hits : \A j \in hits : j <= i][2]

RECURSIVE get_pattern(_, _)
get_pattern(relpath, patterns) ==
    IF patterns = <<>> THEN DefaultTemplate
    ELSE IF fnmatch(relpath, Head(patterns)[1]) THEN Head(patterns)[2]
         ELSE get_pattern(relpath, Tail(patterns))

(***************************************************************************)
(* Documents.  A document is not well-formed (etree.parse raises           *)
(* XMLSyntaxError), or it is its text-carrying elements in document order, *)
(* each with the tags on its path from the root, and whether a             *)
(* description/title-info element exists at all.                           *)
(***************************************************************************)
TitleInfo == <<"description", "title-info">>
BookTitleIn == <<"description", "title-info", "book-title">>
BookTitleOut == <<"description", "src-title-info", "book-title">>
LastNameIn == <<"description", "title-info", "author", "last-name">>
FirstNameIn == <<"description", "title-info", "author", "first-name">>

Node(path, text) == [path |-> path, text |-> text]
Doc(wf, ti, nodes) == [wf |-> wf, title_info |-> ti, nodes |-> nodes]
BrokenDoc == Doc(FALSE, FALSE, <<>>)

InTitleInfo(nd) == SubSeq(nd.path, 1, 2) = TitleInfo

\* root.xpath('//fb2:a/fb2:b'): '//' starts at the document root whatever
\* element root is, so every element whose path ends in a/b is selected
Selected(doc, tags) == SelectSeq(doc.nodes, LAMBDA nd : IsSuffix(tags, nd.path))

\* an xpath relative to the element it is given: only title-info's own nodes
get_node_within(doc, tags) ==
    LET nodes == SelectSeq(Selected(doc, tags), InTitleInfo)
        texts == [i \in 1..Len(nodes) |-> nodes[i].text]
    IN  SelectSeq(texts, LAMBDA t : t # <<>>)

\* get_node (lines 24-27): the texts of the selected nodes, the empty ones dropped
get_node(doc, tags) ==
    LET nodes == Selected(doc, tags)
        texts == [i \in 1..Len(nodes) |-> nodes[i].text]
    IN  SelectSeq(texts, LAMBDA t : t # <<>>)

\* zip_longest pads the shorter list with None, written <<>> here (get_node
\* never returns an empty text, so <<>> stands for None alone)
ZipLongest(a, b) ==
    [i \in 1..(IF Len(a) >= Len(b) THEN Len(a) ELSE Len(b)) |->
        <<IF i <= Len(a) THEN a[i] ELSE <<>>, IF i <= Len(b) THEN b[i] ELSE <<>>>>]

\* get_authors with 'if last:' for 'if first and last:'
AuthorsLastOnly(doc) ==
    LET pairs == ZipLongest(get_node(doc, <<"author", "last-name">>),
                            get_node(doc, <<"author", "first-name">>))
        kept == SelectSeq(pairs, LAMBDA p : p[1] # <<>>)
    IN  [i \in 1..Len(kept) |-> kept[i][1] \o <<" ">> \o kept[i][2]]

\* get_authors (lines 30-37)
get_authors(doc) ==
    LET pairs == ZipLongest(get_node(doc, <<"author", "last-name">>),
                            get_node(doc, <<"author", "first-name">>))
        kept == SelectSeq(pairs, LAMBDA p : p[2] # <<>> /\ p[1] # <<>>)
    IN  [i \in 1..Len(kept) |-> kept[i][1] \o <<" ">> \o kept[i][2]]

\* str.format on a template of literal characters and the two fields
RECURSIVE Format(_, _, _)
Format(pattern, author, title) ==
    IF pattern = <<>> THEN <<>>
    ELSE (IF Head(pattern) = "{author}" THEN author
          ELSE IF Head(pattern) = "{title}" THEN title
          ELSE <<Head(pattern)>>) \o Format(Tail(pattern), author, title)

NoValue == "None"

\* line 85 with the test turned round
BrokenOfInverted(new_name) == IF new_name # <<>> THEN "empty name" ELSE NoValue

\* 'broken': 'empty name' if not new_name else None   (line 85)
BrokenOf(new_name) == IF new_name = <<>> THEN "empty name" ELSE NoValue

\* file_info (lines 60-86): the record returned, or the exception raised,
\* with the locals titles_raw and authors_raw
file_info(path, doc, pattern) ==
    IF ~doc.wf
    THEN [raised |-> NoValue, row |-> [path |-> path, broken |-> "XMLSyntaxError"]]
    ELSE IF ~doc.title_info
    THEN [raised |-> "IndexError"]
    ELSE LET titles_raw == get_node(doc, <<"book-title">>)
             title == clean_string(titles_raw, TRUE)
             authors_raw == get_authors(doc)
             author == clean_string(authors_raw, TRUE)
             modified == title[2] \/ author[2] \/ Len(titles_raw) # 1 \/ Len(authors_raw) # 1
             new_name == Format(pattern, author[1], title[1])
         IN  [raised |-> NoValue,
              row |-> [name |-> new_name, path |-> path, broken |-> BrokenOf(new_name)],
              titles_raw |-> titles_raw,
              authors_raw |-> authors_raw,
              modified |-> modified]

(***************************************************************************)
(* The state of a run of main that has not started, and of a function      *)
(* under test that has not been given its input.                           *)
(***************************************************************************)
NoFile == <<>>

MainIdle ==
    /\ n = FALSE
    /\ config = <<>>
    /\ fs = <<>>
    /\ fs0 = <<>>
    /\ stack = <<>>
    /\ cur = NoFile
    /\ status = "idle"
    /\ out = <<>>
    /\ diag = <<>>
    /\ renames = <<>>
    /\ visited = <<>>

PureIdle == arg = <<>> /\ rets = <<>>

(***************************************************************************)
(* clean_string on its own: called on a string, then on what it returned.  *)
(***************************************************************************)
CharSamples == {"a", "1", ")", " ", "\t", "#"}

InitClean ==
    /\ arg \in SeqsUpTo(CharSamples, MaxLen)
    /\ rets = <<>>
    /\ MainIdle

CallCleanString ==
    /\ Len(rets) < 2
    /\ rets' = Append(rets, clean_string(IF rets = <<>> THEN arg ELSE rets[Len(rets)][1], FALSE))
    /\ UNCHANGED <<arg, mainVars>>

SpecClean == InitClean /\ [][CallCleanString]_vars

(***************************************************************************)
(* get_pattern on its own.                                                 *)
(***************************************************************************)
RelpathSamples == {<<>>, <<"d">>, <<"e">>, <<"d", "/", "e">>}
GlobSamples == {<<"*">>, <<"d">>, <<"d", "*">>, <<"?">>, <<"d", "/", "*">>}
TemplateSamples == {<<"{title}">>, <<"{author}">>, <<"{author}", "{title}">>}
RuleSamples == {<<g, t>> : g \in GlobSamples, t \in {<<"{title}">>, <<"{author}">>}}

InitPattern ==
    /\ arg \in [relpath : RelpathSamples, patterns : SeqsUpTo(RuleSamples, MaxRules)]
    /\ rets = <<>>
    /\ MainIdle

CallGetPattern ==
    /\ rets = <<>>
    /\ rets' = <<get_pattern(arg.relpath, arg.patterns)>>
    /\ UNCHANGED <<arg, mainVars>>

SpecPattern == InitPattern /\ [][CallGetPattern]_vars

(***************************************************************************)
(* file_info on its own.                                                   *)
(***************************************************************************)
TextSamples == {<<>>, <<"a">>, <<"#", "b">>}
PathSamples == {BookTitleIn, BookTitleOut, LastNameIn, FirstNameIn}
NodeSamples == {Node(p, t) : p \in PathSamples, t \in TextSamples}

\* a document with a node inside title-info has a title-info element
DocsUpTo(k) ==
    LET seqs == SeqsUpTo(NodeSamples, k)
        inside == {s \in seqs : \E i \in 1..Len(s) : InTitleInfo(s[i])}
    IN  {BrokenDoc} \cup {Doc(TRUE, TRUE, nodes) : nodes \in seqs}
                    \cup {Doc(TRUE, FALSE, nodes) : nodes \in seqs \ inside}

InitInfo ==
    /\ arg \in [path : {<<"x", ".fb2">>}, doc : DocsUpTo(MaxNodes),
                 pattern : TemplateSamples \cup {DefaultTemplate}]
    /\ rets = <<>>
    /\ MainIdle

CallFileInfo ==
    /\ rets = <<>>
    /\ rets' = <<file_info(arg.path, arg.doc, arg.pattern)>>
    /\ UNCHANGED <<arg, mainVars>>

SpecInfo == InitInfo /\ [][CallFileInfo]_vars

(***************************************************************************)
(* The filesystem and the os calls.  fs maps the path of every entry under *)
(* the root (the root itself is <<>>) to [kind, doc]; doc is what          *)
(* etree.parse makes of a file's content.                                  *)
(***************************************************************************)
MAX_PATH_DEPTH == 128

Entry(kind, doc) == [kind |-> kind, doc |-> doc]
DirEntry == Entry("dir", BrokenDoc)

isfile(f, p) == p \in DOMAIN f /\ f[p].kind = "file"
isdir(f, p) == p \in DOMAIN f /\ f[p].kind = "dir"
endswith_fb2(name) == name # <<>> /\ name[Len(name)] = ".fb2"

\* the names os.listdir(p) returns, as a set: their order is the system's choice
listdir(f, p) ==
    {q[Len(q)] : q \in {r \in DOMAIN f : Len(r) = Len(p) + 1 /\ SubSeq(r, 1, Len(p)) = p}}

Orders(S) == {o \in SeqsUpTo(S, Cardinality(S)) :
                 Len(o) = Cardinality(S) /\ \A i, j \in 1..Len(o) : i # j => o[i] # o[j]}

\* os.rename on POSIX: dst is replaced silently when it is an existing file, and
\* renaming a file to itself does nothing
os_rename(f, src, dst) ==
    [p \in (DOMAIN f \ {src}) \cup {dst} |-> IF p = dst THEN f[src] ELSE f[p]]

\* the relative directory as the string get_pattern is given: its names joined
\* by os.path.join (split in halves, to keep the evaluation shallow)
RECURSIVE RelpathStr(_)
RelpathStr(dir) ==
    IF dir = <<>> THEN <<>>
    ELSE IF Len(dir) = 1 THEN dir[1]
    ELSE LET h == Len(dir) \div 2
         IN  RelpathStr(SubSeq(dir, 1, h)) \o <<"/">> \o RelpathStr(SubSeq(dir, h + 1, Len(dir)))

(***************************************************************************)
(* get_files (lines 89-100), a generator: stack holds the calls suspended  *)
(* in their 'for fname in os.listdir' loop, each with the directory it     *)
(* lists (relpath joined with file_name), the names left and its depth.    *)
(***************************************************************************)
Frame(dir, todo, depth) == [dir |-> dir, todo |-> todo, depth |-> depth]

Top == stack[Len(stack)]
Caller == SubSeq(stack, 1, Len(stack) - 1)
\* the call get_files(root, Top.dir, Head(Top.todo), depth = Top.depth + 1)
NextName == Head(Top.todo)
NextPath == Append(Top.dir, NextName)
NextDepth == Top.depth + 1
Advanced == Append(Caller, Frame(Top.dir, Tail(Top.todo), Top.depth))

Walking == status = "running" /\ cur = NoFile
Calling == Walking /\ stack # <<>> /\ Top.todo # <<>>

\* 'depth >= MAX_PATH_DEPTH' (line 90)
TooDeep(depth) == depth >= MAX_PATH_DEPTH

\* main calls get_files(args.path): depth 0, and the root is a directory
StartWalk ==
    /\ status = "init"
    /\ IF TooDeep(0)
       THEN status' = "TooDeep" /\ stack' = stack
       ELSE /\ status' = "running"
            /\ \E order \in Orders(listdir(fs, <<>>)) : stack' = <<Frame(<<>>, order, 0)>>
    /\ UNCHANGED <<pureVars, n, config, fs, fs0, cur, out, diag, renames, visited>>

\* line 91: the exception leaves the generator and main
WalkTooDeep ==
    /\ Calling
    /\ TooDeep(NextDepth)
    /\ status' = "TooDeep"
    /\ UNCHANGED <<pureVars, n, config, fs, fs0, stack, cur, out, diag, renames, visited>>

\* lines 95-96: the tuple is handed to main's loop body
WalkYield ==
    /\ Calling
    /\ ~TooDeep(NextDepth)
    /\ isfile(fs, NextPath) /\ endswith_fb2(NextName)
    /\ cur' = <<[relpath |-> Top.dir, file_name |-> NextName]>>
    /\ stack' = Advanced
    /\ UNCHANGED <<pureVars, n, config, fs, fs0, status, out, diag, renames, visited>>

\* lines 98-100: the entry is a directory
WalkDescend ==
    /\ Calling
    /\ ~TooDeep(NextDepth)
    /\ isdir(fs, NextPath)
    /\ \E order \in Orders(listdir(fs, NextPath)) :
          stack' = Append(Advanced, Frame(NextPath, order, NextDepth))
    /\ UNCHANGED <<pureVars, n, config, fs, fs0, cur, status, out, diag, renames, visited>>

\* neither test holds: a file of another extension
WalkSkip ==
    /\ Calling
    /\ ~TooDeep(NextDepth)
    /\ ~(isfile(fs, NextPath) /\ endswith_fb2(NextName))
    /\ ~isdir(fs, NextPath)
    /\ stack' = Advanced
    /\ UNCHANGED <<pureVars, n, config, fs, fs0, cur, status, out, diag, renames, visited>>

\* the listing is exhausted: the call returns to its caller
WalkReturn ==
    /\ Walking /\ stack # <<>> /\ Top.todo = <<>>
    /\ stack' = Caller
    /\ UNCHANGED <<pureVars, n, config, fs, fs0, cur, status, out, diag, renames, visited>>

\* the generator is exhausted: main's loop ends
Finish ==
    /\ Walking /\ stack = <<>>
    /\ status' = "done"
    /\ UNCHANGED <<pureVars, n, config, fs, fs0, stack, cur, out, diag, renames, visited>>

(***************************************************************************)
(* The body of main's loop (lines 122-132) on the tuple in cur.            *)
(***************************************************************************)
InBody == status = "running" /\ cur # NoFile

full_path == cur[1].relpath
full_file_path == Append(cur[1].relpath, cur[1].file_name)
fname_pattern == get_pattern(RelpathStr(cur[1].relpath), config)
info == file_info(full_file_path, fs[full_file_path].doc, fname_pattern)
\* os.path.join(full_path, row['name']) + '.fb2'   (line 127)
new_path == Append(full_path, Append(info.row.name, ".fb2"))

\* only the string 'empty name' taken for broken
TruthyOnlyEmptyName(broken) == broken = "empty name"

\* 'if row['broken']:' (line 124): None is false, the string and the exception true
Truthy(broken) == broken # NoValue

\* the print of line 130 without its test
DiffLinesAlways(old, new) == <<[old |-> old, new |-> new]>>

\* lines 129-130
DiffLines(old, new) == IF old # new THEN <<[old |-> old, new |-> new]>> ELSE <<>>

\* the rename of line 132 without the test of line 128
RenamedAlways(dry, f, src, dst) == os_rename(f, src, dst)

\* lines 128-132: the filesystem after the body
Renamed(dry, f, src, dst) == IF dry THEN f ELSE os_rename(f, src, dst)

\* what stops the body: file_info's exception, row['name'] of a record without
\* a name, os.rename onto a directory
BodyRaises ==
    IF info.raised # NoValue THEN info.raised
    ELSE IF Truthy(info.row.broken) THEN NoValue
    ELSE IF "name" \notin DOMAIN info.row THEN "KeyError"
    ELSE IF ~n /\ isdir(fs, new_path) THEN "IsADirectoryError"
    ELSE NoValue

MainRaise ==
    /\ InBody
    /\ BodyRaises # NoValue
    /\ status' = BodyRaises
    /\ UNCHANGED <<pureVars, n, config, fs, fs0, stack, cur, out, diag, renames, visited>>

\* lines 124-126: print(row); continue
MainBroken ==
    /\ InBody
    /\ BodyRaises = NoValue
    /\ Truthy(info.row.broken)
    /\ diag' = Append(diag, info.row)
    /\ visited' = Append(visited, info.row)
    /\ cur' = NoFile
    /\ UNCHANGED <<pureVars, n, config, fs, fs0, stack, status, out, renames>>

\* lines 127-130, args.n set
MainPreview ==
    /\ InBody
    /\ BodyRaises = NoValue
    /\ ~Truthy(info.row.broken)
    /\ n
    /\ out' = out \o DiffLines(full_file_path, new_path)
    /\ fs' = Renamed(n, fs, full_file_path, new_path)
    /\ visited' = Append(visited, info.row)
    /\ cur' = NoFile
    /\ UNCHANGED <<pureVars, n, config, fs0, stack, status, diag, renames>>

\* lines 127-132, args.n not set
MainRename ==
    /\ InBody
    /\ BodyRaises = NoValue
    /\ ~Truthy(info.row.broken)
    /\ ~n
    /\ fs' = Renamed(n, fs, full_file_path, new_path)
    /\ renames' = Append(renames, [src |-> full_file_path, dst |-> new_path,
                                   replaced |-> new_path # full_file_path
                                                /\ new_path \in DOMAIN fs])
    /\ visited' = Append(visited, info.row)
    /\ cur' = NoFile
    /\ UNCHANGED <<pureVars, n, config, fs0, stack, status, out, diag>>

(***************************************************************************)
(* The runs: a flag, a configuration and a tree.                           *)
(***************************************************************************)
Titled(t) == Doc(TRUE, TRUE, <<Node(BookTitleIn, t)>>)
DocSamples == {BrokenDoc, Titled(<<"a">>), Titled(<<"b">>), Doc(TRUE, TRUE, <<>>),
               Doc(TRUE, FALSE, <<>>)}

ConfigSamples ==
    {<<>>,
     <<<<<<"d">>, <<"{author}", "{title}">>>>, <<<<"*">>, <<"{title}">>>>>>}

FileA == <<"a", ".fb2">>
FileB == <<"b", ".fb2">>
FileN == <<"n", ".txt">>
DirD == <<"d">>

\* the entries a name of the root may have
Contents(name) ==
    IF endswith_fb2(name) THEN {Entry("file", d) : d \in DocSamples}
    ELSE {Entry("file", BrokenDoc)}

\* the root with at most MaxFiles files, and nothing else
RootOnly ==
    UNION {[{<<>>} \cup {<<nm>> : nm \in S} ->
               {DirEntry} \cup UNION {Contents(nm) : nm \in S}]
           : S \in {T \in SUBSET {FileA, FileB, FileN} : Cardinality(T) <= MaxFiles}}

WellFormedTree(f) ==
    /\ f[<<>>] = DirEntry
    /\ \A p \in DOMAIN f \ {<<>>} : f[p] \in Contents(p[Len(p)])

\* the directory d under the root: absent, empty, or holding a.fb2
SubDirs ==
    {<<>>} \cup {(<<DirD>> :> DirEntry)}
           \cup {(<<DirD>> :> DirEntry) @@ (<<DirD, FileA>> :> Entry("file", d)) : d \in DocSamples}

ShallowTrees == {r @@ sub : r \in {f \in RootOnly : WellFormedTree(f)}, sub \in SubDirs}

\* k directories d/d/.../d under the root and one entry in the last: the entry
\* is k + 1 levels below the root
Chain(k) == [i \in 1..k |-> DirD]

ChainTree(k, leaf) ==
    [p \in {Chain(i) : i \in 0..k} \cup {Append(Chain(k), leaf)} |->
        IF Len(p) <= k THEN DirEntry
        ELSE IF endswith_fb2(leaf) THEN Entry("file", Titled(<<"a">>)) ELSE DirEntry]

ChainTrees ==
    {ChainTree(k, leaf) : k \in (MAX_PATH_DEPTH - 2)..MAX_PATH_DEPTH, leaf \in {FileA, DirD}}

Init ==
    /\ PureIdle
    /\ n \in BOOLEAN
    /\ config \in ConfigSamples
    /\ fs \in ShallowTrees \cup ChainTrees
    /\ fs0 = fs
    /\ stack = <<>>
    /\ cur = NoFile
    /\ status = "init"
    /\ out = <<>>
    /\ diag = <<>>
    /\ renames = <<>>
    /\ visited = <<>>

Next ==
    \/ StartWalk
    \/ WalkTooDeep
    \/ WalkYield
    \/ WalkDescend
    \/ WalkSkip
    \/ WalkReturn
    \/ Finish
    \/ MainRaise
    \/ MainBroken
    \/ MainPreview
    \/ MainRename

Spec == Init /\ [][Next]_vars

(***************************************************************************)
(* Claims about the pure functions.                                        *)
(***************************************************************************)

\* the rules of arg.patterns whose glob matches arg.relpath
Hits == {i \in 1..Len(arg.patterns) : fnmatch(arg.relpath, arg.patterns[i][1])}

\* C1: get_pattern returns the template of the matching rule of lowest index,
\* whatever later rules match too, and the default template "{author} - {title}"
\* when no rule matches (the empty rule list included).
C1_FirstMatchWins ==
    rets # <<>> =>
        IF Hits = {} THEN rets[1] = <<"{author}", " ", "-", " ", "{title}">>
        ELSE \E i \in Hits : /\ \A j \in Hits : i <= j
                              /\ rets[1] = arg.patterns[i][2]

\* two rules match, with different templates, and a result was returned
C1_Witness ==
    /\ rets # <<>>
    /\ \E i, j \in Hits : i < j /\ arg.patterns[i][2] # arg.patterns[j][2]

\* C3 as stated: file_info returns a record for every document: with 'broken' the
\* syntax error and no 'name' when the document is not well-formed, and for every
\* well-formed document with 'broken' = "empty name" exactly when the new name is
\* empty and None otherwise, 'path' being the input path.
C3_RecordForEveryDocument ==
    rets # <<>> =>
        /\ rets[1].raised = NoValue
        /\ rets[1].row.path = arg.path
        /\ ~arg.doc.wf =>
              /\ rets[1].row.broken = "XMLSyntaxError"
              /\ "name" \notin DOMAIN rets[1].row
        /\ arg.doc.wf =>
              /\ "name" \in DOMAIN rets[1].row
              /\ rets[1].row.broken = (IF rets[1].row.name = <<>> THEN "empty name" ELSE NoValue)

\* C3 as amended: the same, for the well-formed documents that contain a
\* description/title-info element; for the others file_info raises IndexError.
C3_RecordWhenTitleInfo ==
    rets # <<>> =>
        /\ ~arg.doc.wf =>
              /\ rets[1].raised = NoValue
              /\ rets[1].row.path = arg.path
              /\ rets[1].row.broken = "XMLSyntaxError"
              /\ "name" \notin DOMAIN rets[1].row
        /\ arg.doc.wf /\ arg.doc.title_info =>
              /\ rets[1].raised = NoValue
              /\ rets[1].row.path = arg.path
              /\ "name" \in DOMAIN rets[1].row
              /\ rets[1].row.broken = (IF rets[1].row.name = <<>> THEN "empty name" ELSE NoValue)
        /\ arg.doc.wf /\ ~arg.doc.title_info => rets[1].raised = "IndexError"

\* a well-formed document with a title-info element whose new name is empty
C3_Witness ==
    /\ rets # <<>>
    /\ arg.doc.wf /\ arg.doc.title_info
    /\ rets[1].row.name = <<>>
    /\ rets[1].row.broken = "empty name"

\* C7: clean_string is idempotent on its cleaned output:
\* clean_string(clean_string(x)[0])[0] = clean_string(x)[0] for every string x.
C7_Idempotent == Len(rets) = 2 => rets[2][1] = rets[1][1]

\* the first call removed a number prefix and a character outside the allow-list
\* and stripped white space, and left something
C7_Witness ==
    /\ Len(rets) = 2
    /\ rets[1][1] # <<>>
    /\ SubNumberPrefix(strip(arg)) # strip(arg)
    /\ Len(rets[1][1]) < Len(arg) - 2

\* the last-name and the first-name values, as get_node returns them
LastNames == get_node(arg.doc, <<"author", "last-name">>)
FirstNames == get_node(arg.doc, <<"author", "first-name">>)

\* C8: get_authors pairs the i-th last-name value with the i-th first-name value
\* and emits "{last} {first}" for the positions that have both, in order: the
\* output has min(#last-names, #first-names) entries.
C8_AuthorsPaired ==
    (rets # <<>> /\ "authors_raw" \in DOMAIN rets[1]) =>
        /\ Len(rets[1].authors_raw) = Min(Len(LastNames), Len(FirstNames))
        /\ \A i \in 1..Len(rets[1].authors_raw) :
              rets[1].authors_raw[i] = LastNames[i] \o <<" ">> \o FirstNames[i]

\* two last names and one first name: exactly one author comes out
C8_Witness ==
    /\ rets # <<>> /\ "authors_raw" \in DOMAIN rets[1]
    /\ Len(LastNames) = 2 /\ Len(FirstNames) = 1
    /\ LastNames[1] # LastNames[2]
    /\ rets[1].authors_raw = <<LastNames[1] \o <<" ">> \o FirstNames[1]>>

\* C9: the raw title sequence file_info uses is exactly the non-empty texts of
\* the book-title nodes inside description/title-info, in document order; a
\* book-title elsewhere contributes neither to it nor to the computed name.
C9_TitlesWithinBlock ==
    (rets # <<>> /\ "titles_raw" \in DOMAIN rets[1]) =>
        /\ rets[1].titles_raw = get_node_within(arg.doc, <<"book-title">>)
        /\ rets[1].row.name =
              Format(arg.pattern, clean_string(rets[1].authors_raw, TRUE)[1],
                     clean_string(get_node_within(arg.doc, <<"book-title">>), TRUE)[1])

(***************************************************************************)
(* Claims about a run of main.                                             *)
(***************************************************************************)

\* the file in cur is broken: not well-formed XML, or its new name is empty
CurBrokenFile ==
    LET d == fs[full_file_path].doc
    IN  ~d.wf \/ (d.wf /\ d.title_info /\ info.row.name = <<>>)

\* the file in cur is not broken: a new name was computed and is not empty
CurNamedFile ==
    LET d == fs[full_file_path].doc
    IN  d.wf /\ d.title_info /\ info.row.name # <<>>

\* C2: a broken file is never renamed, in a dry run or not, and the run
\* continues: the body ends without an exception and without touching the
\* generator, so the files that come later are still handed to the body.
C2_BrokenSkipped ==
    [][(InBody /\ CurBrokenFile) =>
          /\ fs' = fs
          /\ renames' = renames
          /\ out' = out
          /\ status' = "running"
          /\ stack' = stack
          /\ cur' = NoFile
          /\ Len(visited') = Len(visited) + 1]_vars

\* a run that met a file that is not well-formed, then renamed a later file,
\* and ended
C2_Witness ==
    /\ status = "done"
    /\ ~n
    /\ \E i, j \in 1..Len(visited) :
          /\ i < j
          /\ visited[i].broken = "XMLSyntaxError"
          /\ visited[j].broken = NoValue
          /\ \E k \in 1..Len(renames) : renames[k].src = visited[j].path

\* C4 as stated: for a file that is not broken and whose new full path is its
\* full path, no rename is issued and the filesystem is left alone, and in a dry
\* run no diff line is printed.
C4_NoRenameIssued ==
    [][(InBody /\ CurNamedFile /\ new_path = full_file_path) =>
          /\ fs' = fs
          /\ renames' = renames
          /\ out' = out]_vars

\* C4 as amended: for such a file the filesystem is left as it is (os.rename is
\* still called when -n is not set, with the same path twice, which changes
\* nothing), and in a dry run no diff line is printed.
C4_SamePathNoEffect ==
    [][(InBody /\ CurNamedFile /\ new_path = full_file_path) =>
          /\ fs' = fs
          /\ out' = out
          /\ n => renames' = renames]_vars

\* a rename of a file to its own path has been issued
C4_Witness ==
    /\ ~n
    /\ \E k \in 1..Len(renames) : renames[k].src = renames[k].dst
    /\ fs = fs0

\* the new full path main computes from a row
NewPathOf(row) == Append(SubSeq(row.path, 1, Len(row.path) - 1), Append(row.name, ".fb2"))

\* the rows of the files that would change
WouldChange == SelectSeq(visited, LAMBDA row : row.broken = NoValue /\ NewPathOf(row) # row.path)

\* the .fb2 files of a tree
AllFb2(f) == {p \in DOMAIN f : isfile(f, p) /\ endswith_fb2(p[Len(p)])}

\* C5: with -n the filesystem is the same in every state of the run, and a diff
\* line is printed for exactly the files that are not broken and whose new full
\* path differs from the old one; a run that ends has met every .fb2 file.
C5_DryRunFrame ==
    n =>
        /\ fs = fs0
        /\ renames = <<>>
        /\ out = [i \in 1..Len(WouldChange) |->
                    [old |-> WouldChange[i].path, new |-> NewPathOf(WouldChange[i])]]
        /\ status = "done" => {visited[i].path : i \in 1..Len(visited)} = AllFb2(fs0)

\* a dry run that ended, having met a broken file, a file that keeps its name
\* and a file that would change
C5_Witness ==
    /\ n
    /\ status = "done"
    /\ out # <<>>
    /\ \E i \in 1..Len(visited) : visited[i].broken # NoValue
    /\ \E i \in 1..Len(visited) : visited[i].broken = NoValue /\ NewPathOf(visited[i]) = visited[i].path

\* the depth of the deepest entry of a tree, the root being at depth 0
Deepest(f) == CHOOSE d \in {Len(p) : p \in DOMAIN f} : \A p \in DOMAIN f : Len(p) <= d

\* C6: on a tree whose deepest entry is at depth MAX_PATH_DEPTH the walk does not
\* raise the too-deep error; on a tree with an entry at depth MAX_PATH_DEPTH + 1
\* it raises it.
C6_DepthGuard ==
    /\ Deepest(fs0) = MAX_PATH_DEPTH => status # "TooDeep"
    /\ Deepest(fs0) >= MAX_PATH_DEPTH + 1 => status # "done"

\* C10: without -n no rename targets a path occupied by another file, and a
\* run that ends leaves as many files under the root as it found.
C10_NoOverwrite ==
    ~n =>
        /\ \A k \in 1..Len(renames) : ~renames[k].replaced
        /\ status = "done" =>
              Cardinality({p \in DOMAIN fs : isfile(fs, p)})
                  = Cardinality({p \in DOMAIN fs0 : isfile(fs0, p)})

====
